---- MODULE Spec2Model ----
(***************************************************************************)
(* Qyvr: pattern-addressed hook dispatcher (src/Qyvr.mjs, and the class     *)
(* variant of the same engine in src/unnamed/part_001).                     *)
(*                                                                         *)
(* A pattern string is modelled by the array that pattern.split('.')       *)
(* yields: a non-empty sequence of dot-free segments.  JavaScript values   *)
(* are modelled by strings; Undefined stands for JavaScript's undefined.   *)
(* Objects with identity (Qyvent instances, hook objects) live in `heap`   *)
(* and carry a `ref`; closures that outlive a call (the unregister         *)
(* handles, the async frames of fire) are kept in `handles` and `fires`.   *)
(***************************************************************************)
EXTENDS Integers, Sequences, FiniteSets, TLC

\* ------------------------------------------------------------------ bounds
\* hooks ever registered
MaxHooks == 3
\* Qyvent instances ever constructed
MaxEvents == 2
\* async frames of fire() alive at the same time
MaxFires == 1
\* hooks ever registered while namespaces are replaced and removed (Spec)
MaxRegHooks == 2
\* hooks ever registered when patterns of every shape are used (SpecMatch)
MaxMatchHooks == 2
\* fire() calls alive at the same time where fires interleave
\* (SpecInterleave, SpecShared)
MaxInFlight == 2

\* --------------------------------------------------------- JavaScript values
Undefined == "<undefined>"

\* the TypeError raised by `event.ctx` / `event.hook` when Qyvents.get(id)
\* returned undefined: the failure the specification calls NamespaceNotFound
NamespaceNotFound == "TypeError: Cannot read properties of undefined"

\* ToBoolean for the values the model uses
Truthy(v) == v \notin {Undefined, "", "false"}

\* ------------------------------------------------------------- Array helpers
\* Array.prototype.shift: the value it returns, and the array it leaves
ShiftValue(a) == IF a = <<>> THEN Undefined ELSE Head(a)
Shift(a) == IF a = <<>> THEN <<>> ELSE Tail(a)

\* Array.prototype.pop: the value it returns, and the array it leaves
PopValue(a) == IF a = <<>> THEN Undefined ELSE a[Len(a)]
Pop(a) == IF a = <<>> THEN <<>> ELSE SubSeq(a, 1, Len(a) - 1)

\* Array.prototype.indexOf: 0-based index of the first strictly equal element, or -1
IndexOf(a, x) ==
    IF \E i \in 1..Len(a) : a[i] = x
    THEN (CHOOSE i \in 1..Len(a) : a[i] = x /\ \A j \in 1..(i - 1) : a[j] # x) - 1
    ELSE -1

\* Array.prototype.splice(start) with a single argument: the array it leaves.
\* A negative start counts from the end; everything from start on is removed.
Splice(a, start) ==
    LET n == Len(a)
        from == IF start < 0
                THEN (IF n + start < 0 THEN 0 ELSE n + start)
                ELSE (IF start > n THEN n ELSE start)
    IN  SubSeq(a, 1, from)

\* Array.prototype.join('.')
RECURSIVE Join(_)
Join(a) ==
    IF a = <<>> THEN ""
    ELSE IF Len(a) = 1 THEN a[1]
    ELSE a[1] \o "." \o Join(Tail(a))

\* [...new Set(a)]: first occurrences, in order
RECURSIVE Dedup(_)
Dedup(a) ==
    IF a = <<>> THEN <<>>
    ELSE LET front == Dedup(Pop(a))
             x == PopValue(a)
         IN  IF \E i \in 1..Len(front) : front[i] = x THEN front ELSE Append(front, x)

\* { ...a, ...b }: object spread, later keys win
Spread(a, b) ==
    [k \in DOMAIN a \cup DOMAIN b |-> IF k \in DOMAIN b THEN b[k] ELSE a[k]]

\* ------------------------------------------------------------------- Qyvent
\* a comparator ranking a phase that is not in `phases` after the last one
CompareUnknownLast(phases, a, b) ==
    LET Rank(phase) == IF IndexOf(phases, phase) = -1 THEN Len(phases)
                       ELSE IndexOf(phases, phase)
    IN  Rank(a.phase) - Rank(b.phase)

\* The comparator of hook(): phases.indexOf(a.phase) - phases.indexOf(b.phase)
Compare(phases, a, b) == IndexOf(phases, a.phase) - IndexOf(phases, b.phase)

\* Array.prototype.sort with that comparator.  The sort is stable (ES2019),
\* so its result is the one stable insertion sort computes.
RECURSIVE InsertHook(_, _, _)
InsertHook(phases, sorted, h) ==
    IF sorted = <<>> THEN <<h>>
    ELSE IF Compare(phases, PopValue(sorted), h) <= 0 THEN Append(sorted, h)
    ELSE Append(InsertHook(phases, Pop(sorted), h), PopValue(sorted))

\* hook() without its sort: the hook stays where push put it
SortHooksOmitted(phases, hooks) == hooks

RECURSIVE SortHooks(_, _)
SortHooks(phases, hooks) ==
    IF hooks = <<>> THEN <<>>
    ELSE InsertHook(phases, SortHooks(phases, Pop(hooks)), PopValue(hooks))

\* A declared phase is given as [text, star]: the string text, followed by
\* '*' when star.  phase.endsWith('*') is star; phase.slice(0, -1) is text.
StripPhases(phases) == [i \in 1..Len(phases) |-> phases[i].text]

\* this.main: assigned by every starred phase in turn, so the last one wins;
\* never assigned (undefined) when no phase is starred
MainPhase(phases) ==
    LET starred == {i \in 1..Len(phases) : phases[i].star}
    IN  IF starred = {} THEN Undefined
        ELSE phases[CHOOSE i \in starred : \A j \in starred : j <= i].text

\* new Qyvent(id, phases, ctx)
Qyvent(id, phases, ctx) ==
    [id |-> id, ctx |-> ctx, phases |-> StripPhases(phases),
     main |-> MainPhase(phases), hooks |-> <<>>]

\* The hook object of Qyvent.hook: { id, name, action, cb, phase }.  ref is
\* the object's identity; the callback's behaviour is chosen when it runs.
HookObj(ref, pattern, phase) ==
    LET id == ShiftValue(pattern)
        rest == Shift(pattern)
    IN  [ref |-> ref, id |-> id, name |-> Pop(rest), action |-> PopValue(rest),
         phase |-> phase]

\* Qyvent.hook(pattern, cb, phase = this.main): the hooks array it leaves
QyventHook(event, ref, pattern, phase) ==
    LET ph == IF phase = Undefined THEN event.main ELSE phase
    IN  SortHooks(event.phases, Append(event.hooks, HookObj(ref, pattern, ph)))

\* The closure hook() returns: () => this.hooks.splice(this.hooks.indexOf(hookObj))
UnregisterHooks(hooks, hookObj) == Splice(hooks, IndexOf(hooks, hookObj))

\* the filter's test with the wildcard honoured on either side
FilterTestEitherSide(hook, id, action, pattern) ==
    IF id # hook.id \/ action # hook.action \/ Len(hook.name) # Len(pattern)
    THEN FALSE
    ELSE \A index \in 1..Len(hook.name) :
            \/ hook.name[index] = pattern[index]
            \/ hook.name[index] = "*"
            \/ pattern[index] = "*"

\* fire's filter (Qyvr.mjs lines 125-133; Qyvent.filter in the class variant):
\* the test applied to one hook, for the parsed id, action and name parts
FilterTest(hook, id, action, pattern) ==
    IF id # hook.id \/ action # hook.action \/ Len(hook.name) # Len(pattern)
    THEN FALSE
    ELSE \A index \in 1..Len(hook.name) :
            hook.name[index] = pattern[index] \/ hook.name[index] = "*"

\* event.hooks.filter(...) for a fire pattern
FilterHooks(hooks, pattern) ==
    LET id == ShiftValue(pattern)
        rest == Shift(pattern)
        action == PopValue(rest)
        name == Pop(rest)
        Test(hook) == FilterTest(hook, id, action, name)
    IN  SelectSeq(hooks, Test)

\* Qyvent.has(pattern) of Qyvr.mjs
QyventHas(event, pattern) ==
    LET p == Dedup(<<event.id>> \o pattern)
        id == ShiftValue(p)
        rest == Shift(p)
        action == PopValue(rest)
        name == Pop(rest)
    IN  \E i \in 1..Len(event.hooks) :
            /\ id = event.hooks[i].id
            /\ action = event.hooks[i].action
            /\ Join(name) = Join(event.hooks[i].name)

\* Qyvr.has(pattern) of the class variant: no Set, the namespace is looked up
QyvrHas(events, objects, pattern) ==
    LET id == ShiftValue(pattern)
        rest == Shift(pattern)
        action == PopValue(rest)
        name == Pop(rest)
    IN  /\ id \in DOMAIN events
        /\ \E i \in 1..Len(objects[events[id]].hooks) :
            LET hook == objects[events[id]].hooks[i]
            IN  id = hook.id /\ action = hook.action /\ Join(name) = Join(hook.name)

\* -------------------------------------------------------------------- state
VARIABLES
    heap,       \* the Qyvent instances ever constructed, by reference
    Qyvents,    \* the Map: namespace id -> reference into heap
    handles,    \* the unregister closures returned so far: [obj, hookObj]
    fires,      \* the async frames of the fire() calls not yet collected
    thrown,     \* what the last addHook call threw (Undefined: it returned)
    store,      \* the objects a shared context refers to: reference -> value
    closures,   \* the combined unregister closures propertyHook returned
    target      \* own properties of the proxy targets: <<ns, property>> -> value

vars == <<heap, Qyvents, handles, fires, thrown, store, closures, target>>

\* the state only the shared objects, propertyHook and the proxy touch
others == <<store, closures, target>>

\* new Map(): Qyvr.mjs line 206, #events in the class variant
Init ==
    /\ heap = <<>>
    /\ Qyvents = <<>>
    /\ handles = <<>>
    /\ fires = <<>>
    /\ thrown = Undefined
    /\ store = <<>>
    /\ closures = <<>>
    /\ target = <<>>

\* Map.prototype.get
MapGet(map, key) == IF key \in DOMAIN map THEN map[key] ELSE Undefined

\* Map.prototype.set
MapSet(map, key, value) ==
    [k \in DOMAIN map \cup {key} |-> IF k = key THEN value ELSE map[k]]

\* Map.prototype.delete
MapDelete(map, key) == [k \in DOMAIN map \ {key} |-> map[k]]

\* property read of a plain object: undefined when the key is absent
Get(obj, key) == IF key \in DOMAIN obj THEN obj[key] ELSE Undefined

\* ---------------------------------------------------------------- registry
\* addEvent that merges: a namespace created under an existing id inherits
\* the hooks of the one it replaces
AddEventMerging(id, phases, ctx) ==
    /\ Len(heap) < MaxEvents
    /\ heap' = Append(heap, [Qyvent(id, phases, ctx) EXCEPT !.hooks =
                    IF id \in DOMAIN Qyvents THEN heap[Qyvents[id]].hooks ELSE <<>>])
    /\ Qyvents' = MapSet(Qyvents, id, Len(heap) + 1)
    /\ UNCHANGED <<handles, fires, thrown, others>>

\* addEvent(Qyvents, id, phases, ctx)
AddEvent(id, phases, ctx) ==
    /\ Len(heap) < MaxEvents
    /\ heap' = Append(heap, Qyvent(id, phases, ctx))
    /\ Qyvents' = MapSet(Qyvents, id, Len(heap) + 1)
    /\ UNCHANGED <<handles, fires, thrown, others>>

\* delEvent(Qyvents, id)
DelEvent(id) ==
    /\ Qyvents' = MapDelete(Qyvents, id)
    /\ UNCHANGED <<heap, handles, fires, thrown, others>>

\* addHook(Qyvents, pattern, cb, phase): event.hook(...) on the namespace of
\* the pattern's first segment; a TypeError when the Map has no such id
AddHook(pattern, phase) ==
    LET id == pattern[1]
    IN  IF id \notin DOMAIN Qyvents
        THEN /\ thrown' = NamespaceNotFound
             /\ UNCHANGED <<heap, Qyvents, handles, fires, others>>
        ELSE LET event == MapGet(Qyvents, id)
                 ref == Len(handles) + 1
                 hooks == QyventHook(heap[event], ref, pattern, phase)
                 hookObj == CHOOSE h \in {hooks[i] : i \in 1..Len(hooks)} : h.ref = ref
             IN  /\ Len(handles) < MaxHooks
                 /\ heap' = [heap EXCEPT ![event].hooks = hooks]
                 /\ handles' = Append(handles, [obj |-> event, hookObj |-> hookObj])
                 /\ thrown' = Undefined
                 /\ UNCHANGED <<Qyvents, fires, others>>

\* an unregister closure that also takes the hook out of the arrays the
\* fires in flight are walking
UnregisterEverywhere(k) ==
    /\ k \in 1..Len(handles)
    /\ heap' = [heap EXCEPT ![handles[k].obj].hooks =
                    UnregisterHooks(@, handles[k].hookObj)]
    /\ fires' = [f \in 1..Len(fires) |->
                    [fires[f] EXCEPT !.hooks =
                        LET Other(hook) == hook # handles[k].hookObj
                        IN  SelectSeq(@, Other)]]
    /\ UNCHANGED <<Qyvents, handles, thrown, others>>

\* invoking the closure returned by hook(): it removes from the hooks array
\* of the Qyvent instance it was created on
Unregister(k) ==
    /\ k \in 1..Len(handles)
    /\ heap' = [heap EXCEPT ![handles[k].obj].hooks =
                    UnregisterHooks(@, handles[k].hookObj)]
    /\ UNCHANGED <<Qyvents, handles, fires, thrown, others>>

\* propertyHook(Qyvents, pattern, getter, setter): two hooks in the default
\* phase, on pattern + '.get' and pattern + '.set', and one closure over the
\* two closures hook() returned; a TypeError when the Map has no such id
PropertyHook(pattern) ==
    LET id == pattern[1]
    IN  IF id \notin DOMAIN Qyvents
        THEN /\ thrown' = NamespaceNotFound
             /\ UNCHANGED <<heap, Qyvents, handles, fires, others>>
        ELSE LET event == MapGet(Qyvents, id)
                 getter == Len(handles) + 1
                 setter == Len(handles) + 2
                 withGetter == [heap[event] EXCEPT !.hooks =
                     QyventHook(heap[event], getter, Append(pattern, "get"), Undefined)]
                 hooks == QyventHook(withGetter, setter, Append(pattern, "set"), Undefined)
                 HookOf(ref) == CHOOSE h \in {hooks[i] : i \in 1..Len(hooks)} : h.ref = ref
             IN  /\ Len(handles) + 2 <= MaxHooks
                 /\ heap' = [heap EXCEPT ![event].hooks = hooks]
                 /\ handles' = handles \o << [obj |-> event, hookObj |-> HookOf(getter)],
                                              [obj |-> event, hookObj |-> HookOf(setter)] >>
                 /\ closures' = Append(closures,
                        [removeGetter |-> getter, removeSetter |-> setter])
                 /\ thrown' = Undefined
                 /\ UNCHANGED <<Qyvents, fires, store, target>>

\* invoking the closure returned by propertyHook(): removeGetter(), then
\* removeSetter(), each the splice of Qyvent.hook
UnregisterProperty(c) ==
    /\ c \in 1..Len(closures)
    /\ LET getter == handles[closures[c].removeGetter]
           setter == handles[closures[c].removeSetter]
       IN  heap' = [heap EXCEPT ![getter.obj].hooks =
                UnregisterHooks(UnregisterHooks(@, getter.hookObj), setter.hookObj)]
    /\ UNCHANGED <<Qyvents, handles, fires, thrown, others>>

\* ---------------------------------------------------------------------- fire
\* marks a hook invocation that did not assign this.return
NoWrite == "<none>"

\* The frame of one fire() call: its locals id, action, pattern (the name
\* parts left after shift and pop), event (the reference Qyvents.get(id)
\* returned, 0 when it returned undefined), hooks (the filtered array the
\* for-of loop walks), i (the position of the hook whose result is awaited)
\* and ctx (the execution context).  calls (the hook objects invoked, in
\* order) and log (per settled hook: the result the DEBUG FIRE line prints,
\* and what the hook assigned to this.return) record what the frame did.
Frame(split, event, hooks, ctx) ==
    [id |-> ShiftValue(split), action |-> PopValue(Shift(split)),
     pattern |-> Pop(Shift(split)), event |-> event,
     hooks |-> hooks, i |-> 0, ctx |-> ctx, state |-> "created", value |-> Undefined,
     calls |-> <<>>, log |-> <<>>, wrote |-> NoWrite, child |-> 0]

\* a loop head without the await: every remaining callback is called at
\* once and the frame then awaits them one after the other
AdvanceWithoutAwait(frame) ==
    IF frame.i < Len(frame.hooks)
    THEN [frame EXCEPT !.i = @ + 1, !.state = "awaiting",
                       !.calls = [n \in 1..Len(frame.hooks) |-> frame.hooks[n].ref],
                       !.wrote = NoWrite]
    ELSE [frame EXCEPT !.state = "resolved", !.value = Get(frame.ctx, "return")]

\* a loop head that filters the namespace's live hooks array again at every
\* iteration instead of walking the array filtered when fire() began
AdvanceLive(frame) ==
    LET live == IF frame.event = 0 THEN <<>>
                ELSE FilterHooks(heap[frame.event].hooks,
                                 <<frame.id>> \o frame.pattern \o <<frame.action>>)
    IN  IF frame.i < Len(live)
        THEN [frame EXCEPT !.hooks = live, !.i = @ + 1, !.state = "awaiting",
                           !.calls = Append(@, live[frame.i + 1].ref),
                           !.wrote = NoWrite]
        ELSE [frame EXCEPT !.hooks = live, !.state = "resolved",
                           !.value = Get(frame.ctx, "return")]

\* the loop head: the next hook's callback is called with ctx as `this`, or
\* the loop is exhausted and the frame returns ctx.return
Advance(frame) ==
    IF frame.i < Len(frame.hooks)
    THEN [frame EXCEPT !.i = @ + 1, !.state = "awaiting",
                       !.calls = Append(@, frame.hooks[frame.i + 1].ref),
                       !.wrote = NoWrite]
    ELSE [frame EXCEPT !.state = "resolved", !.value = Get(frame.ctx, "return")]

\* the loop body without its `if(ctx.stopped) break`
ResumeIgnoringStop(frame, result) ==
    LET ctx == IF result # Undefined
               THEN Spread(frame.ctx, [return |-> result])
               ELSE frame.ctx
    IN  Advance([frame EXCEPT !.ctx = ctx,
                    !.log = Append(@, [hook |-> frame.hooks[frame.i].ref,
                                       result |-> result,
                                       wrote |-> frame.wrote])])

\* the loop body with `ctx.return = result` done whatever the result is
ResumeStoringUndefined(frame, result) ==
    LET ctx == Spread(frame.ctx, [return |-> result])
        logged == [frame EXCEPT !.ctx = ctx,
                       !.log = Append(@, [hook |-> frame.hooks[frame.i].ref,
                                          result |-> result,
                                          wrote |-> frame.wrote])]
    IN  IF Truthy(Get(ctx, "stopped"))
        THEN [logged EXCEPT !.state = "resolved", !.value = Get(ctx, "return")]
        ELSE Advance(logged)

\* the loop body after the await (lines 137-143): a result other than
\* undefined overwrites ctx.return; a truthy ctx.stopped breaks the loop
Resume(frame, result) ==
    LET ctx == IF result # Undefined
               THEN Spread(frame.ctx, [return |-> result])
               ELSE frame.ctx
        logged == [frame EXCEPT !.ctx = ctx,
                       !.log = Append(@, [hook |-> frame.hooks[frame.i].ref,
                                          result |-> result,
                                          wrote |-> frame.wrote])]
    IN  IF Truthy(Get(ctx, "stopped"))
        THEN [logged EXCEPT !.state = "resolved", !.value = Get(ctx, "return")]
        ELSE Advance(logged)

\* fire with `event?.ctx`: an unknown namespace yields an empty dispatch
\* that resolves with undefined
FireLenient(pattern, args) ==
    LET id == ShiftValue(pattern)
    IN  /\ Len(fires) < MaxFires
        /\ fires' = Append(fires,
             IF id \notin DOMAIN Qyvents
             THEN Advance(Frame(pattern, 0, <<>>, [args |-> args, return |-> Undefined]))
             ELSE LET ref == MapGet(Qyvents, id)
                      event == heap[ref]
                      ctx == Spread(event.ctx, [args |-> args, return |-> Undefined])
                  IN  Advance(Frame(pattern, ref, FilterHooks(event.hooks, pattern), ctx)))
        /\ UNCHANGED <<heap, Qyvents, handles, thrown, others>>

\* fire with ctx = { args, return: undefined, stop } and no spread of
\* event.ctx
FireFrameWithoutShared(pattern, args) ==
    LET id == ShiftValue(pattern)
    IN  IF id \notin DOMAIN Qyvents
        THEN [Frame(pattern, 0, <<>>, <<>>) EXCEPT !.state = "rejected",
                                                   !.value = NamespaceNotFound]
        ELSE LET ref == MapGet(Qyvents, id)
                 event == heap[ref]
                 ctx == [args |-> args, return |-> Undefined]
             IN  Advance(Frame(pattern, ref, FilterHooks(event.hooks, pattern), ctx))

\* the frame of fire(Qyvents, pattern, ...args) at its first await, or
\* rejected where `event.ctx` reads a property of undefined
FireFrame(pattern, args) ==
    LET id == ShiftValue(pattern)
    IN  IF id \notin DOMAIN Qyvents
        THEN [Frame(pattern, 0, <<>>, <<>>) EXCEPT !.state = "rejected",
                                                   !.value = NamespaceNotFound]
        ELSE LET ref == MapGet(Qyvents, id)
                 event == heap[ref]
                 ctx == Spread(event.ctx, [args |-> args, return |-> Undefined])
             IN  Advance(Frame(pattern, ref, FilterHooks(event.hooks, pattern), ctx))

\* fire(Qyvents, pattern, ...args) called while fewer than `limit` calls
\* are alive
FireWithin(limit, pattern, args) ==
    /\ Len(fires) < limit
    /\ fires' = Append(fires, FireFrame(pattern, args))
    /\ UNCHANGED <<heap, Qyvents, handles, thrown, others>>

\* fire(Qyvents, pattern, ...args) up to its first await
Fire(pattern, args) == FireWithin(MaxFires, pattern, args)

\* `this.return = v` on a context that is a per-hook copy: the frame's own
\* context never sees the assignment
HookAssignLost(f, v) ==
    /\ f \in 1..Len(fires)
    /\ fires[f].state = "awaiting"
    /\ fires[f].wrote = NoWrite
    /\ fires' = [fires EXCEPT ![f].wrote = v]
    /\ UNCHANGED <<heap, Qyvents, handles, thrown, others>>

\* the running hook of frame f executes `this.return = v`
HookAssign(f, v) ==
    /\ f \in 1..Len(fires)
    /\ fires[f].state = "awaiting"
    /\ fires[f].wrote = NoWrite
    /\ fires' = [fires EXCEPT ![f].ctx = Spread(@, [return |-> v]), ![f].wrote = v]
    /\ UNCHANGED <<heap, Qyvents, handles, thrown, others>>

\* the running hook of frame f executes `this.stop()`
HookStop(f) ==
    /\ f \in 1..Len(fires)
    /\ fires[f].state = "awaiting"
    /\ ~Truthy(Get(fires[f].ctx, "stopped"))
    /\ fires' = [fires EXCEPT ![f].ctx = Spread(@, [stopped |-> "true"])]
    /\ UNCHANGED <<heap, Qyvents, handles, thrown, others>>

\* the awaited result of the running hook of frame f is available
HookReturn(f, result) ==
    /\ f \in 1..Len(fires)
    /\ fires[f].state = "awaiting"
    /\ fires' = [fires EXCEPT ![f] = Resume(@, result)]
    /\ UNCHANGED <<heap, Qyvents, handles, thrown, others>>

\* a dispatcher that catches what a hook throws and goes on with the next hook
HookThrowSwallowed(f, error) == HookReturn(f, Undefined)

\* the running hook of frame f throws, or the promise it returned rejects:
\* the await throws inside the async function, whose promise rejects
HookThrow(f, error) ==
    /\ f \in 1..Len(fires)
    /\ fires[f].state = "awaiting"
    /\ fires' = [fires EXCEPT ![f].state = "rejected", ![f].value = error]
    /\ UNCHANGED <<heap, Qyvents, handles, thrown, others>>

\* the promise of the frame has settled
Settled(frame) == frame.state \in {"resolved", "rejected"}

\* a dispatcher with a lock per namespace: the fire a hook starts waits,
\* before its first hook, for the lock the outer fire holds until it settles
HookFireLocked(f, pattern, args) ==
    /\ f \in 1..Len(fires)
    /\ fires[f].state = "awaiting"
    /\ Len(fires) < MaxInFlight
    /\ fires' = Append([fires EXCEPT ![f].state = "nested", ![f].child = Len(fires) + 1],
                       Frame(pattern, fires[f].event, fires[f].hooks, fires[f].ctx))
    /\ UNCHANGED <<heap, Qyvents, handles, thrown, others>>

\* the running hook of frame f executes `await fire(pattern, ...args)`: the
\* hook's own promise stays pending until the new frame, its child, settles
HookFire(f, pattern, args) ==
    /\ f \in 1..Len(fires)
    /\ fires[f].state = "awaiting"
    /\ Len(fires) < MaxInFlight
    /\ fires' = Append([fires EXCEPT ![f].state = "nested", ![f].child = Len(fires) + 1],
                       FireFrame(pattern, args))
    /\ UNCHANGED <<heap, Qyvents, handles, thrown, others>>

\* the fire the running hook of frame f awaits has settled: the hook goes
\* on after its await, or the await throws what the nested fire rejected
\* with, the hook's promise rejects and the outer fire with it
HookResume(f) ==
    /\ f \in 1..Len(fires)
    /\ fires[f].state = "nested"
    /\ Settled(fires[fires[f].child])
    /\ fires' = IF fires[fires[f].child].state = "resolved"
                THEN [fires EXCEPT ![f].state = "awaiting"]
                ELSE [fires EXCEPT ![f].state = "rejected",
                                   ![f].value = fires[fires[f].child].value]
    /\ UNCHANGED <<heap, Qyvents, handles, thrown, others>>

\* the running hook of frame f returns a promise that never settles
HookHang(f) ==
    /\ f \in 1..Len(fires)
    /\ fires[f].state = "awaiting"
    /\ fires' = [fires EXCEPT ![f].state = "hung"]
    /\ UNCHANGED <<heap, Qyvents, handles, thrown, others>>

\* the caller has received the settled promise of frame f; the frame is gone
Collect(f) ==
    /\ f \in 1..Len(fires)
    /\ fires[f].state \in {"resolved", "rejected"}
    /\ fires' = [k \in 1..(Len(fires) - 1) |-> IF k < f THEN fires[k] ELSE fires[k + 1]]
    /\ UNCHANGED <<heap, Qyvents, handles, thrown, others>>

\* ------------------------------------------------------------ shared context
\* A property of a context holds a primitive or a reference into `store`.
\* what a hook reads at `this[key]`, followed into the object it refers to
Observe(ctx, key) ==
    LET x == Get(ctx, key)
    IN  IF x \in DOMAIN store THEN store[x] ELSE x

\* the running hook of frame f executes `this.count = v`: `this` is the
\* frame's own ctx object
HookSetOwn(f, v) ==
    /\ f \in 1..Len(fires)
    /\ fires[f].state = "awaiting"
    /\ fires' = [fires EXCEPT ![f].ctx = Spread(@, [count |-> v])]
    /\ UNCHANGED <<heap, Qyvents, handles, thrown, others>>

\* the running hook of frame f executes `this.box.n = v`: this.box is the
\* object event.ctx.box refers to, which the spread copied by reference
HookSetNested(f, v) ==
    /\ f \in 1..Len(fires)
    /\ fires[f].state = "awaiting"
    /\ Get(fires[f].ctx, "box") \in DOMAIN store
    /\ store' = [store EXCEPT ![Get(fires[f].ctx, "box")] = v]
    /\ UNCHANGED <<heap, Qyvents, handles, fires, thrown, closures, target>>

\* the running hook of frame f, a closure over the object that was passed
\* to addEvent as ctx, executes `shared.count = v`
HookSetShared(f, v) ==
    /\ f \in 1..Len(fires)
    /\ fires[f].state = "awaiting"
    /\ fires[f].event # 0
    /\ heap' = [heap EXCEPT ![fires[f].event].ctx = Spread(@, [count |-> v])]
    /\ UNCHANGED <<Qyvents, handles, fires, thrown, others>>

\* --------------------------------------------------------------------- proxy
\* calling a value that is not a function
NotAFunction == "TypeError: is not a function"
\* assigning a non-writable property in strict code
ReadOnlyProperty == "TypeError: Cannot assign to read only property"
\* the non-writable own properties of `const Qyvr = function(){}`
FunctionOwn == {"name", "length"}

\* proxy.property: the get trap.  A function that will fire the call
\* pattern when a hook with exactly that pattern exists, else the promise
\* of a fire of the get pattern; a TypeError when the Map has no such id
ProxyGet(ns, property) ==
    IF ns \notin DOMAIN Qyvents
    THEN /\ thrown' = NamespaceNotFound
         /\ UNCHANGED <<heap, Qyvents, handles, fires, others>>
    ELSE IF QyventHas(heap[MapGet(Qyvents, ns)], <<ns, property, "call">>)
    THEN /\ thrown' = Undefined
         /\ UNCHANGED <<heap, Qyvents, handles, fires, others>>
    ELSE /\ Len(fires) < MaxFires
         /\ fires' = Append(fires, FireFrame(<<ns, property, "get">>, <<>>))
         /\ thrown' = Undefined
         /\ UNCHANGED <<heap, Qyvents, handles, others>>

\* proxy.property(...args): the get trap, then a call of what it returned,
\* which is a promise and no function when no call hook exists
ProxyCall(ns, property, args) ==
    IF ns \notin DOMAIN Qyvents
    THEN /\ thrown' = NamespaceNotFound
         /\ UNCHANGED <<heap, Qyvents, handles, fires, others>>
    ELSE /\ Len(fires) < MaxFires
         /\ IF QyventHas(heap[MapGet(Qyvents, ns)], <<ns, property, "call">>)
            THEN /\ fires' = Append(fires, FireFrame(<<ns, property, "call">>, args))
                 /\ thrown' = Undefined
            ELSE /\ fires' = Append(fires, FireFrame(<<ns, property, "get">>, <<>>))
                 /\ thrown' = NotAFunction
         /\ UNCHANGED <<heap, Qyvents, handles, others>>

\* proxy.property = v: the handler has no set trap, so the assignment is an
\* ordinary one on the proxy target: it defines the property there, or fails
\* on a non-writable one (a TypeError in strict code, ignored in sloppy code)
ProxySet(ns, property, v) ==
    IF property \in FunctionOwn
    THEN /\ thrown' \in {ReadOnlyProperty, Undefined}
         /\ UNCHANGED <<heap, Qyvents, handles, fires, others>>
    ELSE /\ target' = MapSet(target, <<ns, property>>, v)
         /\ thrown' = Undefined
         /\ UNCHANGED <<heap, Qyvents, handles, fires, store, closures>>

\* ------------------------------------------------------------ specifications
\* Registry: the namespace "sys" is created, replaced and removed, hooks are
\* registered and unregistered, fires interleave; "nodes" is never created.
\* Callbacks only return.
Phases3 ==
    << [text |-> "pre", star |-> FALSE], [text |-> "main", star |-> TRUE],
       [text |-> "post", star |-> FALSE] >>
Phases1 == << [text |-> "main", star |-> TRUE] >>
Configs == { [phases |-> Phases3, ctx |-> <<>>],
             [phases |-> Phases1, ctx |-> [user |-> "root"]] }
Patterns == { <<"sys", "login", "call">>, <<"nodes", "login", "call">> }

Next ==
    \/ \E c \in Configs : AddEvent("sys", c.phases, c.ctx)
    \/ DelEvent("sys")
    \/ \E pattern \in Patterns :
            /\ pattern[1] \in DOMAIN Qyvents => Len(handles) < MaxRegHooks
            /\ AddHook(pattern, Undefined)
    \/ \E k \in 1..MaxHooks : Unregister(k)
    \/ \E pattern \in Patterns : Fire(pattern, <<>>)
    \/ \E f \in 1..MaxFires : HookReturn(f, Undefined)
    \/ \E f \in 1..MaxFires : Collect(f)

Spec == Init /\ [][Next]_vars

\* Ordering: one namespace "sys", created with either phase list; hooks on
\* one pattern are registered into declared, default and undeclared phases
\* and unregistered while fires of that pattern run.
InitOrder ==
    /\ \E c \in Configs : heap = << Qyvent("sys", c.phases, c.ctx) >>
    /\ Qyvents = MapSet(<<>>, "sys", 1)
    /\ handles = <<>>
    /\ fires = <<>>
    /\ thrown = Undefined
    /\ store = <<>>
    /\ closures = <<>>
    /\ target = <<>>

OrderPhases == { Undefined, "pre", "post" }

NextOrder ==
    \/ \E phase \in OrderPhases : AddHook(<<"sys", "login", "call">>, phase)
    \/ \E k \in 1..MaxHooks : Unregister(k)
    \/ Fire(<<"sys", "login", "call">>, <<>>)
    \/ \E f \in 1..MaxFires : HookReturn(f, Undefined)
    \/ \E f \in 1..MaxFires : Collect(f)

SpecOrder == InitOrder /\ [][NextOrder]_vars

\* Default phase: the namespace "sys" is created with a phase list that
\* stars one phase or with one that stars none; hooks are registered as in
\* NextOrder.
PhasesUnmarked ==
    << [text |-> "pre", star |-> FALSE], [text |-> "post", star |-> FALSE] >>

InitPhases ==
    /\ \E phases \in {Phases3, PhasesUnmarked} :
            heap = << Qyvent("sys", phases, <<>>) >>
    /\ Qyvents = MapSet(<<>>, "sys", 1)
    /\ handles = <<>>
    /\ fires = <<>>
    /\ thrown = Undefined
    /\ store = <<>>
    /\ closures = <<>>
    /\ target = <<>>

SpecPhases == InitPhases /\ [][NextOrder]_vars

\* Properties: one namespace "nodes" with phases [pre, main*, post]; plain
\* hooks are registered into the three phases and properties with
\* propertyHook; the combined closures are invoked while fires of the
\* property's get pattern run.
InitProperty ==
    /\ heap = << Qyvent("nodes", Phases3, <<>>) >>
    /\ Qyvents = MapSet(<<>>, "nodes", 1)
    /\ handles = <<>>
    /\ fires = <<>>
    /\ thrown = Undefined
    /\ store = <<>>
    /\ closures = <<>>
    /\ target = <<>>

PropertyPattern == <<"nodes", "node1", "status">>

NextProperty ==
    \/ \E phase \in {Undefined, "pre", "post"} :
            AddHook(Append(PropertyPattern, "get"), phase)
    \/ PropertyHook(PropertyPattern)
    \/ \E c \in 1..MaxHooks : UnregisterProperty(c)
    \/ Fire(Append(PropertyPattern, "get"), <<>>)
    \/ \E f \in 1..MaxFires : HookReturn(f, Undefined)
    \/ \E f \in 1..MaxFires : Collect(f)

SpecProperty == InitProperty /\ [][NextProperty]_vars

\* Proxy: one namespace "user" and its proxy `user`; hooks are registered on
\* the call, get and set patterns of the members login, name and email, and
\* the members are called, read and assigned through the proxy.
InitProxy ==
    /\ heap = << Qyvent("user", Phases1, <<>>) >>
    /\ Qyvents = MapSet(<<>>, "user", 1)
    /\ handles = <<>>
    /\ fires = <<>>
    /\ thrown = Undefined
    /\ store = <<>>
    /\ closures = <<>>
    /\ target = <<>>

Members == {"login", "name", "email"}
ProxyHookPatterns ==
    { <<"user", "login", "call">>, <<"user", "name", "get">>,
      <<"user", "name", "set">>, <<"user", "email", "set">> }

NextProxy ==
    \/ \E pattern \in ProxyHookPatterns :
            /\ Len(handles) < MaxRegHooks
            /\ AddHook(pattern, Undefined)
    \/ \E m \in Members : ProxyGet("user", m)
    \/ \E m \in Members : ProxyCall("user", m, <<"Andre">>)
    \/ \E m \in Members : ProxySet("user", m, "Max")
    \/ \E f \in 1..MaxFires : HookReturn(f, Undefined)
    \/ \E f \in 1..MaxFires : Collect(f)

SpecProxy == InitProxy /\ [][NextProxy]_vars

\* Matching: one namespace "sys"; hooks and fires use patterns of every
\* shape: no, one and two name parts, wildcards, a repeated segment, another
\* action, and the bare namespace id.
InitMatch ==
    /\ heap = << Qyvent("sys", Phases1, <<>>) >>
    /\ Qyvents = MapSet(<<>>, "sys", 1)
    /\ handles = <<>>
    /\ fires = <<>>
    /\ thrown = Undefined
    /\ store = <<>>
    /\ closures = <<>>
    /\ target = <<>>

MatchHookPatterns ==
    { <<"sys", "call">>, <<"sys", "a", "call">>, <<"sys", "*", "call">>,
      <<"sys", "a", "a", "call">>, <<"sys", "*", "b", "call">>, <<"sys", "a", "get">>,
      <<"sys">> }

MatchFirePatterns ==
    { <<"sys", "call">>, <<"sys", "a", "call">>, <<"sys", "b", "call">>,
      <<"sys", "*", "call">>, <<"sys", "a", "a", "call">>, <<"sys", "a", "b", "call">>,
      <<"sys", "a", "get">>, <<"sys">> }

NextMatch ==
    \/ \E pattern \in MatchHookPatterns :
            /\ Len(handles) < MaxMatchHooks
            /\ AddHook(pattern, Undefined)
    \/ \E k \in 1..MaxMatchHooks : Unregister(k)
    \/ \E pattern \in MatchFirePatterns : Fire(pattern, <<>>)
    \/ \E f \in 1..MaxFires : HookReturn(f, Undefined)
    \/ \E f \in 1..MaxFires : Collect(f)

SpecMatch == InitMatch /\ [][NextMatch]_vars

\* Dispatch: the namespace "sys" with phases [pre, main*, post] holds three
\* hooks on sys.login.call, registered into main, pre and main in that
\* order; fires of that pattern run callbacks that assign this.return, call
\* this.stop(), return a value or nothing, or throw.
DispatchPattern == <<"sys", "login", "call">>

DispatchEvent ==
    LET e0 == Qyvent("sys", Phases3, <<>>)
        e1 == [e0 EXCEPT !.hooks = QyventHook(e0, 1, DispatchPattern, Undefined)]
        e2 == [e1 EXCEPT !.hooks = QyventHook(e1, 2, DispatchPattern, "pre")]
    IN  [e2 EXCEPT !.hooks = QyventHook(e2, 3, DispatchPattern, Undefined)]

InitDispatch ==
    /\ heap = << DispatchEvent >>
    /\ Qyvents = MapSet(<<>>, "sys", 1)
    /\ handles = [k \in 1..3 |->
            [obj |-> 1,
             hookObj |-> CHOOSE h \in {DispatchEvent.hooks[i] : i \in 1..3} : h.ref = k]]
    /\ fires = <<>>
    /\ thrown = Undefined
    /\ store = <<>>
    /\ closures = <<>>
    /\ target = <<>>

Results == { Undefined, "r1", "r2" }
Assigned == { "w" }
Errors == { "boom", "bang" }

NextDispatch ==
    \/ Fire(DispatchPattern, <<"admin">>)
    \/ \E f \in 1..MaxFires, v \in Assigned : HookAssign(f, v)
    \/ \E f \in 1..MaxFires : HookStop(f)
    \/ \E f \in 1..MaxFires, result \in Results : HookReturn(f, result)
    \/ \E f \in 1..MaxFires, error \in Errors : HookThrow(f, error)
    \/ \E f \in 1..MaxFires : Collect(f)

SpecDispatch == InitDispatch /\ [][NextDispatch]_vars

\* Interleaving: the namespace "sys" with phases [pre, main*, post] holds two
\* hooks on sys.login.call, registered into main and pre in that order; its
\* shared context is empty or holds a property named `stopped`.  Several
\* fires of the pattern are alive at once and their hooks' steps interleave.
InterleaveEvent(ctx) ==
    LET e0 == Qyvent("sys", Phases3, ctx)
        e1 == [e0 EXCEPT !.hooks = QyventHook(e0, 1, DispatchPattern, Undefined)]
    IN  [e1 EXCEPT !.hooks = QyventHook(e1, 2, DispatchPattern, "pre")]

InterleaveContexts == { <<>>, [stopped |-> "true"] }

InitInterleave ==
    /\ \E ctx \in InterleaveContexts :
        /\ heap = << InterleaveEvent(ctx) >>
        /\ handles = [k \in 1..2 |->
                [obj |-> 1,
                 hookObj |-> CHOOSE h \in {InterleaveEvent(ctx).hooks[i] : i \in 1..2} :
                                h.ref = k]]
    /\ Qyvents = MapSet(<<>>, "sys", 1)
    /\ fires = <<>>
    /\ thrown = Undefined
    /\ store = <<>>
    /\ closures = <<>>
    /\ target = <<>>

InterleaveArgs == { <<"admin">>, <<"guest">> }

NextInterleave ==
    \/ \E args \in InterleaveArgs : FireWithin(MaxInFlight, DispatchPattern, args)
    \/ \E f \in 1..MaxInFlight, v \in Assigned : HookAssign(f, v)
    \/ \E f \in 1..MaxInFlight : HookStop(f)
    \/ \E f \in 1..MaxInFlight, result \in {Undefined, "r1"} : HookReturn(f, result)
    \/ \E f \in 1..MaxInFlight : Collect(f)

SpecInterleave == InitInterleave /\ [][NextInterleave]_vars

\* Shared context: the namespace "sys" was created with the shared context
\* { count: "0", box: { n: "0" } } and holds the two hooks of
\* InterleaveEvent; the hooks of interleaved fires write to their own
\* context, to the object behind `box`, and to the shared object itself.
BoxRef == "@box"
SharedCtx == [count |-> "0", box |-> BoxRef]
SharedValues == {"0", "1"}

InitShared ==
    /\ heap = << InterleaveEvent(SharedCtx) >>
    /\ handles = [k \in 1..2 |->
            [obj |-> 1,
             hookObj |-> CHOOSE h \in {InterleaveEvent(SharedCtx).hooks[i] : i \in 1..2} :
                            h.ref = k]]
    /\ Qyvents = MapSet(<<>>, "sys", 1)
    /\ fires = <<>>
    /\ thrown = Undefined
    /\ store = MapSet(<<>>, BoxRef, "0")
    /\ closures = <<>>
    /\ target = <<>>

NextShared ==
    \/ FireWithin(MaxInFlight, DispatchPattern, <<>>)
    \/ \E f \in 1..MaxInFlight, v \in SharedValues : HookSetOwn(f, v)
    \/ \E f \in 1..MaxInFlight, v \in SharedValues : HookSetNested(f, v)
    \/ \E f \in 1..MaxInFlight, v \in SharedValues : HookSetShared(f, v)
    \/ \E f \in 1..MaxInFlight : HookReturn(f, Undefined)
    \/ \E f \in 1..MaxInFlight : Collect(f)

SpecShared == InitShared /\ [][NextShared]_vars

\* Progress: the namespace of InterleaveEvent with an empty shared context;
\* fires are started by the host and, nested, by running hooks that await
\* them; a hook returns, throws, or never settles.  The frames are kept.
\* The job queue of the JavaScript engine runs every continuation that is
\* ready, and a hook that is not marked as never settling settles: weak
\* fairness on each frame's next step.
InitLive ==
    /\ heap = << InterleaveEvent(<<>>) >>
    /\ handles = [k \in 1..2 |->
            [obj |-> 1,
             hookObj |-> CHOOSE h \in {InterleaveEvent(<<>>).hooks[i] : i \in 1..2} :
                            h.ref = k]]
    /\ Qyvents = MapSet(<<>>, "sys", 1)
    /\ fires = <<>>
    /\ thrown = Undefined
    /\ store = <<>>
    /\ closures = <<>>
    /\ target = <<>>

\* the next step of frame f once what it awaits is there
Settle(f) ==
    \/ \E result \in {Undefined, "r1"} : HookReturn(f, result)
    \/ HookThrow(f, "boom")
    \/ HookResume(f)

NextLive ==
    \/ FireWithin(MaxInFlight, DispatchPattern, <<>>)
    \/ \E f \in 1..MaxInFlight : HookFire(f, DispatchPattern, <<>>)
    \/ \E f \in 1..MaxInFlight : HookHang(f)
    \/ \E f \in 1..MaxInFlight : Settle(f)

SpecLive ==
    /\ InitLive
    /\ [][NextLive]_vars
    /\ \A f \in 1..MaxInFlight : WF_vars(Settle(f))

\* ------------------------------------------------------------------- claims
\* a step in which fire() was called: a new frame is the last of fires'
FireCalled == Len(fires') = Len(fires) + 1
NewFrame == fires'[Len(fires')]

\* the references the Map holds
Registered == {Qyvents[id] : id \in DOMAIN Qyvents}

\* C8: for a namespace id that is not in the registry (never created, or
\* removed), fire() rejects with NamespaceNotFound and invokes no hook, and
\* addHook() fails with NamespaceNotFound; the registry and every hook
\* collection are unchanged.
C8_UnknownNamespace ==
    [][ /\ (FireCalled /\ NewFrame.id \notin DOMAIN Qyvents) =>
                /\ NewFrame.state = "rejected"
                /\ NewFrame.value = NamespaceNotFound
                /\ NewFrame.calls = <<>>
                /\ heap' = heap /\ Qyvents' = Qyvents /\ handles' = handles
        /\ \A f \in 1..Len(fires') :
                fires'[f].event = 0 =>
                    /\ fires'[f].state = "rejected"
                    /\ fires'[f].value = NamespaceNotFound
                    /\ fires'[f].calls = <<>>
        /\ \A pattern \in Patterns :
                (pattern[1] \notin DOMAIN Qyvents /\ AddHook(pattern, Undefined)) =>
                    /\ thrown' = NamespaceNotFound
                    /\ heap' = heap /\ Qyvents' = Qyvents /\ handles' = handles
      ]_vars

\* C8's case: after "sys" was created, given a hook and removed, addHook on
\* it has thrown and a fire on it sits rejected, while a fire on the
\* never-created "nodes" is impossible to tell apart: both have no namespace
C8_Witness ==
    /\ "sys" \notin DOMAIN Qyvents
    /\ Len(heap) >= 1 /\ heap[1].hooks # <<>>
    /\ thrown = NamespaceNotFound
    /\ \E f \in 1..Len(fires) :
        /\ fires[f].id = "sys" /\ fires[f].event = 0
        /\ fires[f].state = "rejected"

Ordered(phases, hooks) ==
    \A i \in 1..Len(hooks) : \A j \in (i + 1)..Len(hooks) :
        \/ IndexOf(phases, hooks[i].phase) < IndexOf(phases, hooks[j].phase)
        \/ /\ IndexOf(phases, hooks[i].phase) = IndexOf(phases, hooks[j].phase)
           /\ hooks[i].ref < hooks[j].ref

\* C2: after any sequence of addHook and unregister, a namespace's hook
\* collection is sorted by ascending phase index, same-phase hooks in
\* registration order; fire() invokes the matching hooks in that order.
C2_PhaseOrder ==
    /\ \A o \in 1..Len(heap) : Ordered(heap[o].phases, heap[o].hooks)
    /\ \A f \in 1..Len(fires) :
        fires[f].event # 0 =>
            /\ Ordered(heap[fires[f].event].phases, fires[f].hooks)
            /\ fires[f].calls = [n \in 1..fires[f].i |-> fires[f].hooks[n].ref]

\* C2's case: phases [pre, main*, post], hooks registered into post, pre and
\* the default phase in that order, and a fire that invoked them pre, main, post
C2_Witness ==
    /\ heap[1].phases = <<"pre", "main", "post">>
    /\ Len(handles) = 3
    /\ handles[1].hookObj.phase = "post"
    /\ handles[2].hookObj.phase = "pre"
    /\ handles[3].hookObj.phase = "main"
    /\ \E f \in 1..Len(fires) : fires[f].calls = <<2, 3, 1>>

\* C3: invoking the unregister handle removes exactly the hook addHook
\* created: every other hook of the namespace is still present, in the same
\* relative order.
C3_UnregisterExact ==
    [][ \A k \in 1..Len(handles) :
            Unregister(k) =>
                LET Other(hook) == hook # handles[k].hookObj
                IN  heap'[handles[k].obj].hooks =
                        SelectSeq(heap[handles[k].obj].hooks, Other)
      ]_vars

\* the elements of an array
Elements(a) == {a[i] : i \in 1..Len(a)}

\* the matching rule as the specification words it
RuleMatches(h, id, action, nameParts) ==
    /\ h.id = id
    /\ h.action = action
    /\ Len(h.name) = Len(nameParts)
    /\ \A n \in 1..Len(h.name) : h.name[n] = "*" \/ h.name[n] = nameParts[n]

\* C1: fire(p) invokes the callback of a registered hook h (no hook stops or
\* fails here) iff h and p agree on namespace id and action, have as many
\* name parts, and every name part of h is '*' or equals p's at the same
\* position.  The wildcard counts on the hook side only, and a one-part
\* wildcard hook matches neither zero nor two name parts.
C1_MatchRule ==
    [][ /\ (FireCalled /\ NewFrame.event # 0) =>
            \A h \in Elements(heap[NewFrame.event].hooks) :
                /\ h \in Elements(NewFrame.hooks) <=>
                        RuleMatches(h, NewFrame.id, NewFrame.action, NewFrame.pattern)
                /\ (h.name = <<"*">> /\ Len(NewFrame.pattern) # 1) =>
                        h \notin Elements(NewFrame.hooks)
                /\ (\E n \in 1..Len(h.name) :
                        /\ n <= Len(NewFrame.pattern)
                        /\ NewFrame.pattern[n] = "*" /\ h.name[n] \notin {"*"}) =>
                        h \notin Elements(NewFrame.hooks)
        /\ \A f \in 1..Len(fires') :
            /\ Elements(fires'[f].calls) \subseteq {h.ref : h \in Elements(fires'[f].hooks)}
            /\ fires'[f].state = "resolved" =>
                    Elements(fires'[f].calls) = {h.ref : h \in Elements(fires'[f].hooks)}
      ]_vars

\* C1's case: hooks sys.a.call and sys.*.call are registered, and a finished
\* fire of sys.b.call has invoked the wildcard hook and only it
C1_Witness ==
    /\ Len(handles) = 2
    /\ handles[1].hookObj.name = <<"a">> /\ handles[1].hookObj.action = "call"
    /\ handles[2].hookObj.name = <<"*">> /\ handles[2].hookObj.action = "call"
    /\ Len(heap[1].hooks) = 2
    /\ \E f \in 1..Len(fires) :
        /\ fires[f].pattern = <<"b">> /\ fires[f].action = "call"
        /\ fires[f].state = "resolved"
        /\ fires[f].calls = <<2>>

\* C7: for every pattern of an existing namespace, has(pattern) is true iff
\* the set of hooks fire(pattern) would match is non-empty.
C7_HasIffFireMatches ==
    \A id \in DOMAIN Qyvents : \A pattern \in MatchFirePatterns :
        pattern[1] = id =>
            /\ QyventHas(heap[Qyvents[id]], pattern)
                    <=> FilterHooks(heap[Qyvents[id]].hooks, pattern) # <<>>
            /\ QyvrHas(Qyvents, heap, pattern)
                    <=> FilterHooks(heap[Qyvents[id]].hooks, pattern) # <<>>

\* a step that neither starts nor collects a frame: fires[f] and fires'[f]
\* are the same frame before and after
SameFrames == Len(fires') = Len(fires)

Stopped(frame) == Truthy(Get(frame.ctx, "stopped"))

\* C4: once a hook has called stop(), no hook after it in the matched order
\* is invoked in that fire; the hook that called stop() runs to completion,
\* its own result is still applied, and the fire resolves with the return
\* value held at that point.
C4_StopEndsDispatch ==
    [][ SameFrames =>
          \A f \in 1..Len(fires) :
            Stopped(fires[f]) =>
                /\ fires'[f].calls = fires[f].calls
                /\ fires'[f].i = fires[f].i
                /\ (fires[f].state = "awaiting" /\ fires'[f].state = "resolved") =>
                        /\ Len(fires'[f].log) = Len(fires[f].log) + 1
                        /\ LET result == PopValue(fires'[f].log).result
                           IN  fires'[f].value =
                                  IF result # Undefined THEN result
                                  ELSE Get(fires[f].ctx, "return")
                /\ (fires[f].state = "awaiting" /\ fires'[f].state # "rejected"
                        /\ fires'[f].log # fires[f].log) =>
                        fires'[f].state = "resolved"
                /\ fires[f].state = "resolved" => fires'[f] = fires[f]
      ]_vars

\* C4's case: the first of three matched hooks called stop() and returned
\* "r1"; the fire resolved with "r1" and the two later hooks (one of the same
\* phase, one of a later phase) were never invoked
C4_Witness ==
    \E f \in 1..Len(fires) :
        /\ Len(fires[f].hooks) = 3
        /\ Stopped(fires[f])
        /\ fires[f].state = "resolved"
        /\ fires[f].calls = <<fires[f].hooks[1].ref>>
        /\ fires[f].log[1].result = "r1"
        /\ fires[f].value = "r1"

\* the result of the last settled hook whose result was not undefined
RECURSIVE LastResult(_)
LastResult(log) ==
    IF log = <<>> THEN Undefined
    ELSE IF PopValue(log).result # Undefined THEN PopValue(log).result
    ELSE LastResult(Pop(log))

\* the value last stored in the return slot: by a result that was not
\* undefined, or by an assignment of the hook while it ran (which its own
\* result, when not undefined, overwrites)
RECURSIVE LastStored(_)
LastStored(log) ==
    IF log = <<>> THEN Undefined
    ELSE IF PopValue(log).result # Undefined THEN PopValue(log).result
    ELSE IF PopValue(log).wrote # NoWrite THEN PopValue(log).wrote
    ELSE LastStored(Pop(log))

\* C5 as stated: fire() resolves with the result of the last invoked hook
\* whose awaited result was not undefined, and with undefined when no
\* invoked hook produced one.
C5_LastResultWins ==
    \A f \in 1..Len(fires) :
        fires[f].state = "resolved" => fires[f].value = LastResult(fires[f].log)

\* C5 amended: fire() resolves with the value last stored in the return
\* slot, by a result that was not undefined or by a hook assigning
\* this.return; when no invoked hook assigned the slot this is the result of
\* the last invoked hook whose result was not undefined.  A hook that returns
\* nothing and assigns nothing never clears the slot, also when it calls
\* stop(); fire() resolves with undefined when no invoked hook returned or
\* assigned a value.
C5_LastStoredWins ==
    \A f \in 1..Len(fires) :
        fires[f].state = "resolved" =>
            /\ fires[f].value = LastStored(fires[f].log)
            /\ (\A n \in 1..Len(fires[f].log) : fires[f].log[n].wrote = NoWrite) =>
                    fires[f].value = LastResult(fires[f].log)

\* C5's case: the first hook returned "r1", the second returned nothing and
\* called stop(); the fire resolved with "r1"
C5_Witness ==
    \E f \in 1..Len(fires) :
        /\ fires[f].state = "resolved"
        /\ Stopped(fires[f])
        /\ Len(fires[f].log) = 2
        /\ fires[f].log[1].result = "r1"
        /\ fires[f].log[2].result = Undefined /\ fires[f].log[2].wrote = NoWrite
        /\ fires[f].value = "r1"

\* C6: a hook that assigns this.return = v and returns nothing makes v the
\* value fire() resolves with, unless a hook invoked later returns a value
\* other than undefined or assigns the slot again; when that hook also calls
\* stop(), no later hook runs and fire() resolves with exactly v.
C6_AssignedReturn ==
    \A f \in 1..Len(fires) :
        fires[f].state = "resolved" =>
            /\ \A n \in 1..Len(fires[f].log) :
                (/\ fires[f].log[n].wrote # NoWrite
                 /\ fires[f].log[n].result = Undefined
                 /\ \A m \in (n + 1)..Len(fires[f].log) :
                        /\ fires[f].log[m].result = Undefined
                        /\ fires[f].log[m].wrote = NoWrite) =>
                    fires[f].value = fires[f].log[n].wrote
            /\ (/\ Stopped(fires[f])
                /\ PopValue(fires[f].log).wrote # NoWrite
                /\ PopValue(fires[f].log).result = Undefined) =>
                    /\ fires[f].value = PopValue(fires[f].log).wrote
                    /\ Len(fires[f].calls) = Len(fires[f].log)

\* C6's case: the first of three matched hooks assigned this.return = "w",
\* called stop() and returned nothing; the fire resolved with "w"
C6_Witness ==
    \E f \in 1..Len(fires) :
        /\ Len(fires[f].hooks) = 3
        /\ fires[f].state = "resolved"
        /\ Stopped(fires[f])
        /\ Len(fires[f].log) = 1
        /\ fires[f].log[1].wrote = "w" /\ fires[f].log[1].result = Undefined
        /\ fires[f].value = "w"

\* C9: when a hook callback throws or its future rejects, no hook after it
\* is invoked in that fire, the fire() future rejects with the original
\* cause, and no return value of earlier hooks is delivered.
C9_HookErrorRejects ==
    [][ SameFrames =>
          \A f \in 1..Len(fires) :
            /\ \A error \in Errors :
                HookThrow(f, error) =>
                    /\ fires'[f].state = "rejected"
                    /\ fires'[f].value = error
                    /\ fires'[f].calls = fires[f].calls
            /\ fires[f].state = "rejected" => fires'[f] = fires[f]
            /\ fires'[f].state = "rejected" =>
                    /\ fires'[f].value \in Errors
                    /\ fires'[f].value \notin Results
      ]_vars

\* C9's case: the first hook returned "r1", the second threw "boom"; the
\* fire sits rejected with "boom" and the third hook was never invoked
C9_Witness ==
    \E f \in 1..Len(fires) :
        /\ Len(fires[f].hooks) = 3
        /\ fires[f].state = "rejected"
        /\ fires[f].value = "boom"
        /\ Len(fires[f].calls) = 2
        /\ Len(fires[f].log) = 1 /\ fires[f].log[1].result = "r1"
        /\ Get(fires[f].ctx, "return") = "r1"

\* ------------------------------------------------------------------ C11
\* the error the specification names for a pattern of fewer than two segments
PatternMalformed == "PatternMalformed"

\* C11: a pattern of fewer than two segments is rejected with
\* PatternMalformed by addHook and by fire: addHook of such a pattern
\* throws and stores no hook, and fire of such a pattern is rejected and
\* invokes no hook.
C11_BarePatternRejected ==
    [][ /\ \A pattern \in MatchHookPatterns :
              (Len(pattern) < 2 /\ AddHook(pattern, Undefined))
                  => (thrown' = PatternMalformed /\ heap' = heap)
        /\ (FireCalled /\ Len(NewFrame.pattern) = 0 /\ NewFrame.action = Undefined)
              => (NewFrame.state = "rejected" /\ NewFrame.value = PatternMalformed
                    /\ NewFrame.calls = <<>>) ]_vars

\* ------------------------------------------------------------------ C12
\* the default phase as the specification defines it: the starred phase,
\* or the first phase of the list when none is starred
DefaultPhase(event) ==
    IF event.main # Undefined THEN event.main ELSE event.phases[1]

\* C12: a hook registered without an explicit phase is stored and ordered
\* exactly like a hook registered explicitly into the default phase (the
\* starred phase, or the first phase when the list stars none); it is never
\* stored with an absent or unrecognised phase.
C12_DefaultPhase ==
    [][ AddHook(<<"sys", "login", "call">>, Undefined) =>
            /\ heap'[1].hooks =
                    QyventHook(heap[1], Len(handles) + 1,
                               <<"sys", "login", "call">>, DefaultPhase(heap[1]))
            /\ \A n \in 1..Len(heap'[1].hooks) :
                    IndexOf(heap'[1].phases, heap'[1].hooks[n].phase) # -1 ]_vars

\* ------------------------------------------------------------------ C13
\* the hook was registered under a phase name the namespace does not declare
UnknownPhase(phases, hook) ==
    hook.phase # Undefined /\ IndexOf(phases, hook.phase) = -1

\* in the array `hooks` every hook of an undeclared phase stands before
\* every hook of a declared phase, and the hooks of undeclared phases stand
\* in registration order whatever their phase names
UnknownFirst(phases, hooks) ==
    \A i \in 1..Len(hooks) : \A j \in 1..Len(hooks) :
        /\ (UnknownPhase(phases, hooks[i]) /\ ~UnknownPhase(phases, hooks[j])) => i < j
        /\ (UnknownPhase(phases, hooks[i]) /\ UnknownPhase(phases, hooks[j])
                /\ hooks[i].ref < hooks[j].ref) => i < j

\* C13: a hook registered under a phase name that is not in the declared
\* list stands before every hook of every declared phase; hooks of
\* undeclared phases keep their registration order among themselves,
\* whatever the names; fire() therefore invokes them first.
C13_UnknownPhaseFirst ==
    /\ \A o \in 1..Len(heap) : UnknownFirst(heap[o].phases, heap[o].hooks)
    /\ \A f \in 1..Len(fires) :
        fires[f].event # 0 =>
            /\ UnknownFirst(heap[fires[f].event].phases, fires[f].hooks)
            /\ \A n \in 1..Len(fires[f].calls) :
                    fires[f].calls[n] = fires[f].hooks[n].ref

\* C13's case: phases [main*]; a default-phase hook, then hooks under the
\* undeclared names 'post' and 'pre'; a fire invoked post, pre, main
C13_Witness ==
    /\ heap[1].phases = <<"main">>
    /\ Len(handles) = 3
    /\ handles[1].hookObj.phase = "main"
    /\ handles[2].hookObj.phase = "post"
    /\ handles[3].hookObj.phase = "pre"
    /\ heap[1].hooks = <<handles[2].hookObj, handles[3].hookObj, handles[1].hookObj>>
    /\ \E f \in 1..Len(fires) : fires[f].calls = <<2, 3, 1>>

\* ------------------------------------------------------------------ C14
\* C14: the combined unregister handle of registerProperty removes the two
\* hooks that call registered, on pattern.get and pattern.set, and no other
\* hook of the namespace: all others stay, in the same relative order.
C14_PropertyUnregisterExact ==
    [][ \A c \in 1..Len(closures) :
            UnregisterProperty(c) =>
                LET getter == handles[closures[c].removeGetter]
                    setter == handles[closures[c].removeSetter]
                    Other(hook) == hook # getter.hookObj /\ hook # setter.hookObj
                IN  heap'[getter.obj].hooks = SelectSeq(heap[getter.obj].hooks, Other)
      ]_vars

\* ------------------------------------------------------------------ C15
\* C15: through a namespace proxy, calling member m fires ns.m.call with
\* the call's arguments, reading member m fires ns.m.get, and assigning v to
\* member m fires ns.m.set with v, so the hooks registered for these
\* patterns are invoked.
C15_ProxyFires ==
    [][ \A m \in Members :
            /\ ProxyCall("user", m, <<"Andre">>) =>
                    (FireCalled /\ NewFrame = FireFrame(<<"user", m, "call">>, <<"Andre">>))
            /\ ProxyGet("user", m) =>
                    (FireCalled /\ NewFrame = FireFrame(<<"user", m, "get">>, <<>>))
            /\ ProxySet("user", m, "Max") =>
                    (FireCalled /\ NewFrame = FireFrame(<<"user", m, "set">>, <<"Max">>))
      ]_vars

\* ------------------------------------------------------------------ C16
\* the hooks frame `frame` has invoked are the first ones of its matched
\* array, in the array's order
InvokesMatched(frame) ==
    /\ Len(frame.calls) <= Len(frame.hooks)
    /\ \A n \in 1..Len(frame.calls) : frame.calls[n] = frame.hooks[n].ref

\* C16: the set and order of the hooks a fire() invokes is fixed when the
\* fire starts: a hook registered while the fire is in flight does not enter
\* that fire's matched array and is not invoked by it, and it is matched by
\* the fires started afterwards.
C16_MatchedFixedAtStart ==
    [][ /\ SameFrames =>
              \A f \in 1..Len(fires) :
                  fires'[f].hooks = fires[f].hooks /\ InvokesMatched(fires'[f])
        /\ FireCalled =>
              /\ \A f \in 1..Len(fires) : fires'[f] = fires[f]
              /\ InvokesMatched(NewFrame)
              /\ NewFrame.event # 0 =>
                    NewFrame.hooks =
                        FilterHooks(heap[NewFrame.event].hooks,
                            <<NewFrame.id>> \o NewFrame.pattern \o <<NewFrame.action>>)
      ]_vars

\* C16's case: a fire is awaiting its only matched hook 1 while hook 2,
\* registered after the fire began into the later phase 'post', stands
\* behind hook 1 in the collection
C16_Witness ==
    /\ Len(handles) = 2
    /\ heap[1].hooks = <<handles[1].hookObj, handles[2].hookObj>>
    /\ handles[2].hookObj.phase = "post"
    /\ \E f \in 1..Len(fires) :
            /\ fires[f].state = "awaiting"
            /\ fires[f].hooks = <<handles[1].hookObj>>
            /\ fires[f].calls = <<1>>

\* ------------------------------------------------------------------ C17
\* the callbacks frame `frame` has called and whose result it has not yet
\* received
InProgress(frame) == Len(frame.calls) - Len(frame.log)

\* C17: within one fire() at most one matched hook is in progress at any
\* time: the next hook's callback is called only when the result of the
\* previous one has been received, also while other fires interleave.
C17_OneHookAtATime ==
    \A f \in 1..Len(fires) :
        /\ InProgress(fires[f]) \in {0, 1}
        /\ InProgress(fires[f]) = 1 <=> fires[f].state = "awaiting"
        /\ \A n \in 1..Len(fires[f].log) : fires[f].log[n].hook = fires[f].calls[n]

\* C17's case: two fires are in flight; the first has received the result
\* of the 'pre' hook and awaits the 'main' hook, the second still awaits
\* the 'pre' hook
C17_Witness ==
    /\ Len(fires) = 2
    /\ fires[1].state = "awaiting" /\ fires[1].calls = <<2, 1>> /\ Len(fires[1].log) = 1
    /\ fires[2].state = "awaiting" /\ fires[2].calls = <<2>> /\ fires[2].log = <<>>

\* ------------------------------------------------------------------ C18
\* C18: each fire() owns its execution context: a stop() call, a result or
\* an assignment to the return slot in one fire never changes the stopped
\* flag, the return slot or the args of another fire, and every fire starts
\* with return = "no value" and stopped = false.
C18_OwnContext ==
    [][ /\ FireCalled =>
              /\ Get(NewFrame.ctx, "return") = Undefined
              /\ ~Stopped(NewFrame)
              /\ \A f \in 1..Len(fires) : fires'[f] = fires[f]
        /\ SameFrames =>
              \A f \in 1..Len(fires) : \A g \in 1..Len(fires) :
                  (f # g /\ fires'[f] # fires[f]) => fires'[g] = fires[g]
      ]_vars

\* ------------------------------------------------------------------ C19
\* the frames of the other fires on the namespace of frame f that are in
\* flight after the step
InFlightWith(f) ==
    {g \in 1..Len(fires') \ {f} :
        fires'[g].event = fires[f].event /\ fires'[g].state = "awaiting"}

\* a fire starts with every property of the shared context as it is then
\* (args and return are the fire's own)
StartsFromShared ==
    FireCalled =>
        \A key \in DOMAIN heap[NewFrame.event].ctx \ {"args", "return"} :
            Get(NewFrame.ctx, key) = heap[NewFrame.event].ctx[key]

\* no step of a fire (its start, its loop, its collection) changes the
\* shared context or the objects it refers to
NeverReset == fires' # fires => (heap' = heap /\ store' = store)

\* C19: a mutation a hook makes to the namespace's shared context during
\* one fire is observed by the hooks of every other fire on the namespace,
\* started later or already in flight; no fire resets or replaces the
\* shared context.
C19_ObservedByAll ==
    [][ /\ \A f \in 1..Len(fires) : \A v \in SharedValues :
              /\ HookSetShared(f, v) =>
                    \A g \in InFlightWith(f) : Observe(fires[g].ctx, "count")' = v
              /\ HookSetNested(f, v) =>
                    \A g \in InFlightWith(f) : Observe(fires[g].ctx, "box")' = v
        /\ StartsFromShared
        /\ NeverReset ]_vars

\* C19 as the code has it: a mutation inside an object the shared context
\* refers to is observed by every fire, in flight or later; a property
\* changed on the shared object itself is observed by the fires started
\* afterwards, while the fires in flight keep the shallow copy they took;
\* a property a hook assigns on `this` stays in that fire; no fire resets
\* or replaces the shared context.
C19_SharedByReference ==
    [][ /\ \A f \in 1..Len(fires) : \A v \in SharedValues :
              /\ HookSetNested(f, v) =>
                    /\ \A g \in InFlightWith(f) : Observe(fires[g].ctx, "box")' = v
                    /\ Observe(heap[fires[f].event].ctx, "box")' = v
              /\ HookSetShared(f, v) =>
                    /\ Get(heap'[fires[f].event].ctx, "count") = v
                    /\ fires' = fires
              /\ HookSetOwn(f, v) =>
                    /\ heap' = heap /\ store' = store
                    /\ \A g \in 1..Len(fires) : g # f => fires'[g] = fires[g]
        /\ StartsFromShared
        /\ NeverReset ]_vars

\* C19's case: the first fire was in flight when a hook set the shared
\* count and the boxed value to "1", the second fire started afterwards;
\* both read "1" in the box, the first still reads count "0"
C19_Witness ==
    /\ Len(fires) = 2
    /\ fires[1].state = "awaiting" /\ fires[2].state = "awaiting"
    /\ Get(heap[1].ctx, "count") = "1"
    /\ Get(fires[1].ctx, "count") = "0"
    /\ Get(fires[2].ctx, "count") = "1"
    /\ Observe(fires[1].ctx, "box") = "1"
    /\ Observe(fires[2].ctx, "box") = "1"

\* ------------------------------------------------------------------ C20
\* frame f can never settle: its running hook never settles, or awaits a
\* fire that can never settle (a child frame has a higher index)
RECURSIVE Blocked(_)
Blocked(f) ==
    \/ fires[f].state = "hung"
    \/ fires[f].state = "nested" /\ Blocked(fires[f].child)

\* C20: every fire() whose matched hooks each eventually resolve or reject
\* eventually resolves or rejects, also when hooks start further fires and
\* await them and when fires interleave; a hook that never resolves blocks
\* only its own fire and the fires awaiting it.
C20_FireSettles ==
    \A f \in 1..MaxInFlight :
        (f <= Len(fires)) ~> (f <= Len(fires) /\ (Settled(fires[f]) \/ Blocked(f)))

\* C20's case: the first fire's hook started a second fire and awaited it;
\* both have resolved
C20_Witness ==
    /\ Len(fires) = 2
    /\ fires[1].child = 2
    /\ fires[1].state = "resolved"
    /\ fires[2].state = "resolved"

\* ------------------------------------------------------------------ C21
\* C21: the unregister handle is idempotent: invoking the handle of a hook
\* that is no longer in the collection (a second invocation, or after the
\* hook went away through another handle) removes nothing, the collection
\* is the same before and after the call.
C21_UnregisterIdempotent ==
    [][ \A k \in 1..Len(handles) :
            (Unregister(k)
                /\ handles[k].hookObj \notin Elements(heap[handles[k].obj].hooks))
              => heap' = heap
      ]_vars

\* ------------------------------------------------------------------ C22
\* C22: unregistering a hook, removing its namespace or replacing its
\* namespace while a fire that already matched the hook is in flight does
\* not take the hook out of that fire: no such step changes a frame, every
\* frame goes on to call the next hook of its matched array when a result
\* arrives (no hook stops or fails here), and only the fires started
\* afterwards leave the hook out: they match hooks of the collection the
\* namespace id then has, or are rejected when it has none.
C22_RemovalKeepsInFlight ==
    [][ /\ \A k \in 1..Len(handles) : Unregister(k) => fires' = fires
        /\ DelEvent("sys") => fires' = fires
        /\ \A c \in Configs : AddEvent("sys", c.phases, c.ctx) => fires' = fires
        /\ \A f \in 1..Len(fires) :
              HookReturn(f, Undefined) =>
                  IF fires[f].i < Len(fires[f].hooks)
                  THEN /\ fires'[f].state = "awaiting"
                       /\ fires'[f].calls =
                              Append(fires[f].calls, fires[f].hooks[fires[f].i + 1].ref)
                  ELSE fires'[f].state = "resolved"
        /\ FireCalled =>
              IF NewFrame.id \in DOMAIN Qyvents
              THEN Elements(NewFrame.hooks) \subseteq Elements(heap[Qyvents[NewFrame.id]].hooks)
              ELSE NewFrame.calls = <<>>
      ]_vars

\* C22's case: a fire matched hooks 1 and 2 and awaits hook 1; meanwhile
\* hook 2 was unregistered and the namespace was then removed
C22_Witness ==
    /\ Qyvents = <<>>
    /\ \E f \in 1..Len(fires) :
            /\ fires[f].state = "awaiting"
            /\ fires[f].calls = <<1>>
            /\ Len(fires[f].hooks) = 2
            /\ fires[f].hooks[2].ref = 2
            /\ heap[fires[f].event].hooks = <<fires[f].hooks[1]>>

====
